---------------------------- MODULE Spec2Model ----------------------------
(***************************************************************************)
(* A model of the check orchestration of phpstan-vscode's language server: *)
(* PHPStanCheckManager (server/src/lib/phpstan/manager.ts) with its        *)
(* per-key recursive promise chain, the timeout wrapper around a running   *)
(* check, and the hover provider with its report hooks.                    *)
(*                                                                         *)
(* Scheduling is JavaScript's: one thread, run to completion.  The code    *)
(* between two awaits is one step.  A continuation of an await on a        *)
(* promise that is already settled (or gets settled by another step) is a  *)
(* microtask; microtasks run in FIFO order (microQ) before any further     *)
(* event of the outside world (a request, an I/O completion, a timer).     *)
(***************************************************************************)
EXTENDS Integers, Sequences, FiniteSets

\* ------------------------------------------------------------------ bounds
\* Number of project checks (checkProject calls that start a check).
MaxChecks == 3
\* Number of _withRecursivePromise / _getFilePromise calls of the gate harness.
MaxGateCalls == 4
\* Number of project checks under the specifications with fairness or with
\* observed requests.
MaxTimedChecks == 2
\* Number of temporary directories (reservations).
MaxTmp == 2
\* Number of polls in waitPeriodical's budget.
HoverMaxPolls == 2
\* Number of onCheckDone calls.
MaxConsumes == 2

MaxOf(a, b) == IF a > b THEN a ELSE b
Ids == 1 .. MaxOf(MaxChecks, MaxGateCalls)

\* ------------------------------------------------------------- vocabulary
PROJECT_CHECK_STR == "__project__"
URIs == {"a.php", "b.php"}
Keys == {PROJECT_CHECK_STR} \cup URIs

\* Document contents, and the fileContent argument (string | undefined).
Undefined == "<undefined>"
NoDoc == "<closed>"
DocContents == {"X", "Z"}
FileContents == {Undefined, ""} \cup DocContents

\* basicHash: a digest of the full text, compared for equality only.
NoHash == "<none>"
basicHash(content) ==
    CASE content = "X" -> "d41d"
      [] content = "Z" -> "9e10"
      [] content = ""  -> "e3b0"
      [] OTHER         -> "ffff"

\* JavaScript truthiness of a string | undefined value.
Truthy(s) == s # Undefined /\ s # NoHash /\ s # ""

VARIABLES
    \* ---- PHPStanCheckManager
    operation,      \* _operation: [check, hashes]; check = 0 is null
    filePromises,   \* _filePromises: key -> node id, 0 is "no entry"
    node,           \* the PromiseObjects createPromise made: pending or resolved
                    \* to another node (val > 0) or to null (val = 0)
    op,             \* the `operation` promise handed to _withRecursivePromise
    thenReg,        \* operation.then(...) of line 194 is registered
    calls,          \* the async calls in flight: chain, await, checkProject
    microQ,         \* the microtask queue
    chk,            \* one PHPStanCheck per _checkShared run, with its guard
    documents,      \* documents.getAll(): uri -> content
    nextId,         \* the next call / check id
    issued,         \* history: last chain call issued per key
    ev,             \* history: the request handled by the latest step
    \* ---- HoverProviderCheckHooks
    operationMap,   \* _operationMap: uri -> [reportPath, sourceFilePath]
    reports,        \* _reports: uri -> FileReport | null
    nextTmp,        \* the next temporary directory
    lastResv,       \* history: the latest reservation made per uri
    consumed,       \* history: the _getFileReport calls per uri, in call order,
                    \* each with what its read found (the file's kind and its
                    \* entry for the reserved source path)
    \* ---- createHoverProvider
    hover           \* the hover request being served, and its answer

mgrVars == <<operation, filePromises, node, op, thenReg, calls, microQ, chk,
             documents, nextId, issued, ev>>

regVars == <<operationMap, reports, nextTmp, lastResv, consumed>>

vars == <<mgrVars, regVars, hover>>

\* ------------------------------------------------------------ initial state
NoOperation == [check |-> 0, hashes |-> [u \in URIs |-> NoHash]]
NoCall == [kind |-> "none", key |-> PROJECT_CHECK_STR, pc |-> "none",
           obj |-> 0, tail |-> 0, at |-> 0]
NoCheck == [pc |-> "none", disposed |-> FALSE, runner |-> "idle",
            guard |-> "none", result |-> "none", by |-> "none",
            finishes |-> 0, statuses |-> <<>>, timeouts |-> 0, prev |-> 0]
NoPrev == [op |-> "none", uri |-> "", content |-> "", started |-> 0]
NoEv == [op |-> "none", uri |-> "", content |-> "", hadOp |-> 0,
         stored |-> NoHash, started |-> 0, prev |-> NoPrev]

MgrInit ==
    /\ operation = NoOperation
    /\ filePromises = [k \in Keys |-> 0]
    /\ node = [i \in Ids |-> [st |-> "unborn", val |-> 0]]
    /\ op = [i \in Ids |-> "none"]
    /\ thenReg = [i \in Ids |-> FALSE]
    /\ calls = [i \in Ids |-> NoCall]
    /\ microQ = <<>>
    /\ chk = [i \in Ids |-> NoCheck]
    /\ documents = [u \in URIs |-> IF u = "a.php" THEN "X" ELSE NoDoc]
    /\ nextId = 1
    /\ issued = [k \in Keys |-> 0]
    /\ ev = NoEv

\* ---- report files
\* A reported.json: absent, not JSON, the JSON value null, or a ReporterFile
\* object: source path -> FileReport (0: no entry for the path).  FileReports
\* are told apart by an id.
FsPath(u) == IF u = "a.php" THEN "/src/a.php" ELSE "/src/b.php"
Paths == {FsPath(u) : u \in URIs}
ReportIds == {1, 2}
Missing == [kind |-> "missing", entries |-> [q \in Paths |-> 0]]
Corrupt == [kind |-> "corrupt", entries |-> [q \in Paths |-> 0]]
JsonNull == [kind |-> "null", entries |-> [q \in Paths |-> 0]]
\* The process reports on the one file it analysed: at most one entry.
ReporterFiles ==
    {[kind |-> "object", entries |-> e] :
        e \in {x \in [Paths -> {0} \cup ReportIds] :
                 Cardinality({q \in Paths : x[q] # 0}) <= 1}}
FileStates == {Missing, Corrupt, JsonNull} \cup ReporterFiles

\* What _getFileReport returns: null, undefined, or the FileReport rep.
Null == [kind |-> "null", rep |-> 0]
Undef == [kind |-> "undefined", rep |-> 0]
Report(r) == [kind |-> "report", rep |-> r]
Unset == [kind |-> "unset", rep |-> 0]
Pending == [kind |-> "pending", rep |-> 0]

NoMatch == [reportPath |-> 0, sourceFilePath |-> ""]

RegInit ==
    /\ operationMap = [u \in URIs |-> NoMatch]
    /\ reports = [u \in URIs |-> Unset]
    /\ nextTmp = 1
    /\ lastResv = [u \in URIs |-> 0]
    /\ consumed = [u \in URIs |-> <<>>]

\* ---- FileReport contents
Pos(l, c) == [line |-> l, char |-> c]
VarX == [typeDescription |-> "int", name |-> "x",
         pos |-> [start |-> Pos(2, 4), end |-> Pos(2, 6)]]
VarY == [typeDescription |-> "string", name |-> "y",
         pos |-> [start |-> Pos(2, 5), end |-> Pos(2, 8)]]
FileReportOf(r) ==
    IF r = 1 THEN [timestamp |-> 1, data |-> <<VarX>>]
    ELSE [timestamp |-> 2, data |-> <<VarY, VarX>>]

\* What the hover handler answers: null, a Hover, or a rejection (an
\* exception that leaves the handler).
NoAnswer == [kind |-> "none", contents |-> <<>>]
NullAnswer == [kind |-> "null", contents |-> <<>>]
Thrown == [kind |-> "error", contents |-> <<>>]
HoverAnswer(type) ==
    [kind |-> "hover",
     contents |-> <<"PHPStan: ", type.typeDescription, " $", type.name>>]

\* The report file of a request that has not read it.
NotRead == [kind |-> "unread", entries |-> [q \in Paths |-> 0]]

NoHover == [pc |-> "idle", uri |-> "a.php", position |-> Pos(1, 3),
            cancelled |-> FALSE, done |-> FALSE, polls |-> 0,
            outcome |-> "none", read |-> NotRead, answer |-> NoAnswer,
            call |-> 0]

HoverInit == hover = NoHover

Init == MgrInit /\ RegInit /\ HoverInit

\* ------------------------------------------------ promise chain (the gate)
Micro(kind, i) == [k |-> kind, id |-> i]

\* The ids in S, ascending.
SeqOf(S) == SelectSeq([i \in 1 .. MaxOf(MaxChecks, MaxGateCalls) |-> i],
                      LAMBDA i : i \in S)

\* PromiseObject.resolve(v): the first resolution wins, later ones are no-ops.
Resolve(nd, n, v) ==
    IF nd[n].st = "pending" THEN [nd EXCEPT ![n] = [st |-> "resolved", val |-> v]]
    ELSE nd

\* The continuations `obj = await obj.promise` that resolving node n releases.
Woken(nd, cl, n) ==
    IF nd[n].st = "pending"
    THEN [j \in 1 .. Len(SeqOf({c \in Ids : cl[c].pc = "awaiting" /\ cl[c].obj = n}))
            |-> Micro("awaitNext",
                      SeqOf({c \in Ids : cl[c].pc = "awaiting" /\ cl[c].obj = n})[j])]
    ELSE <<>>

\* _withRecursivePromise, line 192: the map entry after chaining node i.
NewTailBroken(prev, i) == IF prev # 0 THEN prev ELSE i
NewTail(prev, i) == i

\* _withRecursivePromise, lines 188-196: the part after `await createPromise()`.
ChainBody(i, rest) ==
    LET K == calls[i].key
        prev == filePromises[K]
        born == [node EXCEPT ![i] = [st |-> "pending", val |-> 0]]
        linked == IF prev # 0 THEN Resolve(born, prev, i) ELSE born
        woken == IF prev # 0 THEN Woken(born, calls, prev) ELSE <<>>
        thenNow == IF op[i] = "fulfilled" THEN <<Micro("opThen", i)>> ELSE <<>>
        cont == IF calls[i].kind = "checkProject"
                THEN <<Micro("awaitStart", i)>> ELSE <<>>
    IN  /\ node' = linked
        /\ filePromises' = [filePromises EXCEPT ![K] = NewTail(prev, i)]
        /\ thenReg' = [thenReg EXCEPT ![i] = TRUE]
        /\ calls' = [calls EXCEPT ![i].pc = IF calls[i].kind = "checkProject"
                                            THEN "chained" ELSE "returned"]
        /\ microQ' = rest \o woken \o thenNow \o cont
        /\ UNCHANGED <<operation, op, chk, documents, nextId, issued>>

\* Line 194-196: the callback of operation.then resolves the node to null.
OpThen(i, rest) ==
    /\ node' = Resolve(node, i, 0)
    /\ microQ' = rest \o Woken(node, calls, i)
    /\ UNCHANGED <<operation, filePromises, op, thenReg, calls, chk, documents,
                   nextId, issued>>

\* `await obj.promise` on node n by call i: continue at once when n is resolved.
AwaitOn(nd, n, i) == IF nd[n].st = "resolved" THEN <<Micro("awaitNext", i)>> ELSE <<>>

\* _getFilePromise, lines 173-179: up to the first `await obj.promise`.
GetFilePromiseStart(cl, i, K) ==
    IF filePromises[K] = 0
    THEN [cl EXCEPT ![i].pc = "resolved", ![i].at = filePromises[K]]
    ELSE [cl EXCEPT ![i].pc = "awaiting", ![i].obj = filePromises[K]]

AwaitStart(i, rest) ==
    LET K == calls[i].key IN
    /\ calls' = GetFilePromiseStart(calls, i, K)
    /\ microQ' = rest \o (IF filePromises[K] = 0 THEN <<>>
                          ELSE AwaitOn(node, filePromises[K], i))
    /\ UNCHANGED <<operation, filePromises, node, op, thenReg, chk, documents,
                   nextId, issued>>

\* _getFilePromise, lines 178-180: what the loop does with the awaited value v
\* (0 is null): TRUE when it awaits the next node, FALSE when it returns.
LoopsOnBroken(v) == FALSE
LoopsOn(v) == v # 0

AwaitNext(i, rest) ==
    LET v == node[calls[i].obj].val IN
    /\ calls' = IF LoopsOn(v)
                THEN [calls EXCEPT ![i].obj = v]
                ELSE [calls EXCEPT ![i].pc = "resolved",
                                   ![i].at = filePromises[calls[i].key]]
    /\ microQ' = rest \o (IF LoopsOn(v) THEN AwaitOn(node, v, i) ELSE <<>>)
    /\ UNCHANGED <<operation, filePromises, node, op, thenReg, chk, documents,
                   nextId, issued>>

RunChainBody ==
    /\ microQ # <<>> /\ Head(microQ).k = "chainBody"
    /\ ChainBody(Head(microQ).id, Tail(microQ))

RunOpThen ==
    /\ microQ # <<>> /\ Head(microQ).k = "opThen"
    /\ OpThen(Head(microQ).id, Tail(microQ))

RunAwaitStart ==
    /\ microQ # <<>> /\ Head(microQ).k = "awaitStart"
    /\ AwaitStart(Head(microQ).id, Tail(microQ))

RunAwaitNext ==
    /\ microQ # <<>> /\ Head(microQ).k = "awaitNext"
    /\ AwaitNext(Head(microQ).id, Tail(microQ))

\* The operation promise of call i fulfils: its then-callback, if registered,
\* becomes a microtask.
Fulfilled(i) == IF thenReg[i] THEN <<Micro("opThen", i)>> ELSE <<>>


\* --------------------------------------------------- PHPStanCheckManager
Quiet == microQ = <<>>

\* checkProject lines 201-205 and dispose line 237: this._operation?.check.dispose().
DisposeActiveSkipped(c, opn) == c
DisposeActive(c, opn) ==
    IF opn.check # 0 THEN [c EXCEPT ![opn.check].disposed = TRUE] ELSE c

\* _checkShared lines 116-121: a hash for every document that is open now.
SnapshotHashes(docs) ==
    [u \in URIs |-> IF docs[u] = NoDoc THEN NoHash ELSE basicHash(docs[u])]

\* checkProject, lines 199-208, with the synchronous start of _checkShared
\* (lines 109-129, up to `await operation.start`) and of _withRecursivePromise
\* (line 187, up to `await createPromise()`).
DoCheckProject ==
    /\ nextId <= MaxChecks
    /\ LET i == nextId
           disposedOld == DisposeActive(chk, operation)
       IN  /\ chk' = [disposedOld EXCEPT ![i] =
                        [NoCheck EXCEPT !.pc = "opStart", !.prev = operation.check]]
           /\ operation' = [check |-> i, hashes |-> SnapshotHashes(documents)]
           /\ op' = [op EXCEPT ![i] = "pending"]
           /\ calls' = [calls EXCEPT ![i] =
                          [NoCall EXCEPT !.kind = "checkProject", !.pc = "createPromise"]]
           /\ microQ' = Append(microQ, Micro("chainBody", i))
           /\ issued' = [issued EXCEPT ![PROJECT_CHECK_STR] = i]
           /\ nextId' = i + 1
    /\ UNCHANGED <<filePromises, node, thenReg, documents>>

\* What a request found and did: the active operation and the hash stored
\* for u before it ran, and the check it started (0: none); prev is the
\* request observed before it, when only microtasks ran in between.
Observe(name, u, c) ==
    ev' = [op |-> name, uri |-> u, content |-> c, hadOp |-> operation.check,
           stored |-> IF u \in URIs THEN operation.hashes[u] ELSE NoHash,
           started |-> IF nextId' # nextId THEN nextId ELSE 0,
           prev |-> [op |-> ev.op, uri |-> ev.uri, content |-> ev.content,
                     started |-> ev.started]]

CheckProject ==
    /\ Quiet
    /\ DoCheckProject

\* checkProjectIfFileChanged, lines 216-229: TRUE when it calls checkProject().
ShouldRecheckNoContentGuard(opn, u, fileContent) ==
    \/ opn.check = 0
    \/ /\ Truthy(opn.hashes[u])
       /\ opn.hashes[u] # basicHash(fileContent)
ShouldRecheckUnhashed(opn, u, fileContent) ==
    \/ opn.check = 0
    \/ /\ Truthy(fileContent)
       /\ Truthy(opn.hashes[u])
       /\ opn.hashes[u] # fileContent
ShouldRecheckNoStoredGuard(opn, u, fileContent) ==
    \/ opn.check = 0
    \/ /\ Truthy(fileContent)
       /\ opn.hashes[u] # basicHash(fileContent)
ShouldRecheck(opn, u, fileContent) ==
    \/ opn.check = 0
    \/ /\ Truthy(fileContent)
       /\ Truthy(opn.hashes[u])
       /\ opn.hashes[u] # basicHash(fileContent)

CheckProjectIfFileChanged(u, fileContent) ==
    /\ Quiet
    /\ IF ShouldRecheck(operation, u, fileContent)
       THEN DoCheckProject
       ELSE UNCHANGED <<operation, filePromises, node, op, thenReg, calls,
                        microQ, chk, documents, nextId, issued>>

\* dispose, lines 236-239.
Dispose ==
    /\ Quiet
    /\ chk' = DisposeActive(chk, operation)
    /\ operation' = NoOperation
    /\ UNCHANGED <<filePromises, node, op, thenReg, calls, microQ, documents,
                   nextId, issued>>

\* clear, lines 231-234: dispose, then the provider hooks drop the reports.
Clear ==
    /\ Dispose
    /\ reports' = [u \in URIs |-> Unset]
    /\ UNCHANGED <<operationMap, nextTmp, lastResv, consumed>>

\* The document source: a document is opened or edited, or closed.
DocSet(u, c) ==
    /\ Quiet
    /\ documents[u] # c
    /\ documents' = [documents EXCEPT ![u] = c]
    /\ UNCHANGED <<operation, filePromises, node, op, thenReg, calls, microQ,
                   chk, nextId, issued>>

\* ------------------------------------------------------------ _checkShared
Step(i, from) == Quiet /\ chk[i].pc = from

\* Line 129 completes; lines 131-142 run up to `await getConfiguration`.
StatusStarted(i) ==
    /\ Step(i, "opStart")
    /\ chk' = [chk EXCEPT ![i].pc = "getConfig"]
    /\ UNCHANGED <<operation, filePromises, node, op, thenReg, calls, microQ,
                   documents, nextId, issued>>

\* Line 142 completes; lines 143-159: check.check(applyErrors) is called and
\* handed to withTimeout, whose promise _checkShared awaits.
ConfigLoaded(i) ==
    /\ Step(i, "getConfig")
    /\ chk' = [chk EXCEPT ![i].pc = "running", ![i].runner = "running",
                          ![i].guard = "armed"]
    /\ UNCHANGED <<operation, filePromises, node, op, thenReg, calls, microQ,
                   documents, nextId, issued>>

\* The results a runner can settle with: a disposed runner's in-flight check
\* settles as killed.
RunnerResults(c) == IF c.disposed THEN {"killed"} ELSE {"success", "error"}

\* withTimeout: the guarded promise settles first, while the timer is still
\* pending: the guard takes its result untouched and clears the timer.  Once
\* the guard is resolved (or bound to onTimeout's result) nothing changes it.
GuardOnSettle(c, r) ==
    IF c.guard = "armed"
    THEN [c EXCEPT !.guard = "resolved", !.result = r, !.by = "operation"]
    ELSE c

\* withTimeout: the timer fires first: the guard is bound to what onTimeout()
\* returns.
GuardOnTimer(c) == [c EXCEPT !.guard = "timingOut", !.by = "timer"]

\* check.check settles with r.  When that resolves the guard, line 159
\* resumes and line 162 calls operation.finish(result.status).
RunnerSettles(i, r) ==
    /\ Quiet
    /\ chk[i].runner = "running"
    /\ r \in RunnerResults(chk[i])
    /\ chk' = IF chk[i].guard = "armed"
              THEN [chk EXCEPT ![i] = [GuardOnSettle(chk[i], r) EXCEPT
                                         !.runner = r, !.pc = "finishing",
                                         !.finishes = chk[i].finishes + 1,
                                         !.statuses = Append(chk[i].statuses, r)]]
              ELSE [chk EXCEPT ![i].runner = r]
    /\ UNCHANGED <<operation, filePromises, node, op, thenReg, calls, microQ,
                   documents, nextId, issued>>

\* onTimeout, lines 150-153, up to `await operation.finish(KILLED)`: the check
\* is disposed and the progress surface is finished as killed.
OnTimeoutNoDispose(c) ==
    [c EXCEPT !.timeouts = c.timeouts + 1, !.finishes = c.finishes + 1,
              !.statuses = Append(c.statuses, "killed")]
OnTimeout(c) ==
    [c EXCEPT !.disposed = TRUE, !.timeouts = c.timeouts + 1,
              !.finishes = c.finishes + 1,
              !.statuses = Append(c.statuses, "killed")]

\* The deadline timer of withTimeout (lines 143-157) fires.
TimerFires(i) ==
    /\ Quiet
    /\ chk[i].guard = "armed"
    /\ chk' = [chk EXCEPT ![i] = OnTimeout(GuardOnTimer(chk[i]))]
    /\ UNCHANGED <<operation, filePromises, node, op, thenReg, calls, microQ,
                   documents, nextId, issued>>

\* onTimeout, line 155: the value the guard resolves with after a timeout.
OnTimeoutResultWrong == "success"
OnTimeoutResult == "killed"

\* Line 153 completes and onTimeout returns (line 155); line 159 resumes and
\* line 162 calls operation.finish(result.status).
TimeoutFinished(i) ==
    /\ Quiet
    /\ chk[i].guard = "timingOut"
    /\ chk' = [chk EXCEPT ![i].guard = "resolved", ![i].result = OnTimeoutResult,
                          ![i].pc = "finishing",
                          ![i].finishes = chk[i].finishes + 1,
                          ![i].statuses = Append(chk[i].statuses, OnTimeoutResult)]
    /\ UNCHANGED <<operation, filePromises, node, op, thenReg, calls, microQ,
                   documents, nextId, issued>>

\* Line 162 completes; lines 164-171: _checkShared returns, its promise fulfils.
FinishDone(i) ==
    /\ Step(i, "finishing")
    /\ chk' = [chk EXCEPT ![i].pc = "done"]
    /\ op' = [op EXCEPT ![i] = "fulfilled"]
    /\ microQ' = microQ \o Fulfilled(i)
    /\ UNCHANGED <<operation, filePromises, node, thenReg, calls, documents,
                   nextId, issued>>

\* ------------------------------------------------------------ specification
\* Spec: the manager under every interleaving of its requests with the
\* progress of the checks they start.  The document source stays as it is.
Hidden == UNCHANGED <<ev, regVars, hover>>

Next ==
    \/ CheckProject /\ Hidden
    \/ \E u \in URIs, c \in FileContents : CheckProjectIfFileChanged(u, c) /\ Hidden
    \/ Dispose /\ Hidden
    \/ Clear /\ UNCHANGED <<ev, hover>>
    \/ \E i \in Ids : StatusStarted(i) /\ Hidden
    \/ \E i \in Ids : ConfigLoaded(i) /\ Hidden
    \/ \E i \in Ids, r \in {"success", "error", "killed"} : RunnerSettles(i, r) /\ Hidden
    \/ \E i \in Ids : TimerFires(i) /\ Hidden
    \/ \E i \in Ids : TimeoutFinished(i) /\ Hidden
    \/ \E i \in Ids : FinishDone(i) /\ Hidden
    \/ RunChainBody /\ Hidden
    \/ RunOpThen /\ Hidden
    \/ RunAwaitStart /\ Hidden
    \/ RunAwaitNext /\ Hidden

Spec == Init /\ [][Next]_vars

\* ---------------------------------------------------------- the deadline
\* SpecTimeout: project checks and their deadlines, with the scheduling the
\* runtime guarantees: an armed timer fires unless it is cleared, the progress
\* surface answers, and queued microtasks run.  A runner need not ever settle.
TimedCheckProject == CheckProject /\ nextId <= MaxTimedChecks /\ Hidden
TimedDispose == Dispose /\ Hidden
TimedStatusStarted(i) == StatusStarted(i) /\ Hidden
TimedConfigLoaded(i) == ConfigLoaded(i) /\ Hidden
TimedRunnerSettles(i, r) == RunnerSettles(i, r) /\ Hidden
TimedTimerFires(i) == TimerFires(i) /\ Hidden
TimedTimeoutFinished(i) == TimeoutFinished(i) /\ Hidden
TimedFinishDone(i) == FinishDone(i) /\ Hidden
TimedMicrotask ==
    (RunChainBody \/ RunOpThen \/ RunAwaitStart \/ RunAwaitNext) /\ Hidden

TimeoutNext ==
    \/ TimedCheckProject
    \/ TimedDispose
    \/ \E i \in Ids : TimedStatusStarted(i)
    \/ \E i \in Ids : TimedConfigLoaded(i)
    \/ \E i \in Ids, r \in {"success", "error", "killed"} : TimedRunnerSettles(i, r)
    \/ \E i \in Ids : TimedTimerFires(i)
    \/ \E i \in Ids : TimedTimeoutFinished(i)
    \/ \E i \in Ids : TimedFinishDone(i)
    \/ TimedMicrotask

SpecTimeout ==
    /\ Init
    /\ [][TimeoutNext]_vars
    /\ \A i \in Ids : WF_vars(TimedTimerFires(i))
    /\ \A i \in Ids : WF_vars(TimedTimeoutFinished(i))
    /\ WF_vars(TimedMicrotask)

\* C8: a guard armed around an operation that does not settle first resolves
\* with "killed" after its timer has fired, and onTimeout runs exactly once.
C8_TimeoutResolvesKilledOnce ==
    /\ \A i \in Ids :
          (chk[i].guard = "armed")
          ~> (\/ chk[i].by = "operation"
              \/ /\ chk[i].guard = "resolved"
                 /\ chk[i].result = "killed"
                 /\ chk[i].timeouts = 1)
    /\ [](\A i \in Ids : /\ chk[i].timeouts <= 1
                         /\ chk[i].by = "timer" => chk[i].timeouts = 1)

\* A guard resolved as killed by its timer while the runner never settled.
C8_Witness ==
    \E i \in Ids :
        /\ chk[i].by = "timer" /\ chk[i].guard = "resolved"
        /\ chk[i].result = "killed" /\ chk[i].timeouts = 1
        /\ chk[i].runner = "running"

\* C15: when the deadline expires before the runner settles, the check is
\* disposed and the progress surface is finished as killed; the guard then
\* resolves with "killed"; neither step alters the active-operation slot,
\* the key -> tail map or a node; every status the progress surface of a
\* timed-out check is finished with is killed.
C15_TimeoutKillsAndFinishesKilled ==
    /\ [][\A i \in Ids :
            /\ (chk[i].guard = "armed" /\ chk'[i].guard = "timingOut")
               => /\ chk'[i].disposed
                  /\ chk'[i].statuses = Append(chk[i].statuses, "killed")
                  /\ UNCHANGED <<operation, filePromises, node>>
            /\ (chk[i].guard = "timingOut" /\ chk'[i].guard = "resolved")
               => /\ chk'[i].result = "killed"
                  /\ UNCHANGED <<operation, filePromises, node>>]_vars
    /\ [](\A i \in Ids :
            chk[i].by = "timer"
            => /\ chk[i].disposed
               /\ chk[i].statuses # <<>>
               /\ \A k \in 1 .. Len(chk[i].statuses) : chk[i].statuses[k] = "killed")

\* A check timed out while it was the active operation: it is disposed, its
\* result is killed, its progress surface finished as killed, and it still
\* sits in the slot.
C15_Witness ==
    \E i \in Ids :
        /\ chk[i].by = "timer" /\ chk[i].pc = "done"
        /\ chk[i].disposed /\ chk[i].result = "killed"
        /\ chk[i].statuses # <<>>
        /\ operation.check = i
        /\ filePromises[PROJECT_CHECK_STR] = i

\* C18: the progress surface operation of a check is finished at most once
\* while the check runs, and exactly once when the check has completed.
C18_FinishedExactlyOnce ==
    \A i \in Ids :
        /\ chk[i].finishes <= 1
        /\ chk[i].pc \in {"finishing", "done"} => chk[i].finishes = 1

\* ------------------------------------------------------- a failing check
\* One of the awaits of _checkShared rejects (line 129: the progress surface,
\* line 142: the configuration, line 159: check.check, line 162: finish):
\* _checkShared throws there, and the promise it returned is rejected.  The
\* callback of line 194 is an onFulfilled callback: a rejection does not
\* run it.
CheckFails(i) ==
    /\ Quiet
    /\ chk[i].pc \in {"opStart", "getConfig", "running", "finishing"}
    /\ chk[i].pc = "running" => (chk[i].runner = "running" /\ chk[i].guard = "armed")
    /\ chk' = IF chk[i].pc = "running"
              THEN [chk EXCEPT ![i] = [GuardOnSettle(chk[i], "rejected") EXCEPT
                                         !.runner = "failed", !.pc = "failed"]]
              ELSE [chk EXCEPT ![i].pc = "failed"]
    /\ op' = [op EXCEPT ![i] = "rejected"]
    /\ UNCHANGED <<operation, filePromises, node, thenReg, calls, microQ,
                   documents, nextId, issued>>

\* SpecFailure: SpecTimeout's checks, any of which may fail at an await.
TimedCheckFails(i) == CheckFails(i) /\ Hidden

FailureNext ==
    \/ TimeoutNext
    \/ \E i \in Ids : TimedCheckFails(i)

SpecFailure ==
    /\ Init
    /\ [][FailureNext]_vars
    /\ \A i \in Ids : WF_vars(TimedTimerFires(i))
    /\ \A i \in Ids : WF_vars(TimedTimeoutFinished(i))
    /\ \A i \in Ids : WF_vars(TimedFinishDone(i))
    /\ WF_vars(TimedMicrotask)

\* The check chained last on the project key has reached a terminal state.
LatestTerminal ==
    /\ issued[PROJECT_CHECK_STR] # 0
    /\ op[issued[PROJECT_CHECK_STR]] \in {"fulfilled", "rejected"}

\* C13: once the latest chained check has reached a terminal state, a
\* failure included, every pending checkProject() caller resolves (unless a
\* later check is chained first).
C13_WaitersResolveOnAnyTerminalState ==
    \A i \in Ids :
        (calls[i].kind = "checkProject" /\ LatestTerminal)
        ~> (calls[i].pc = "resolved" \/ ~LatestTerminal)

\* ----------------------------------------------------------------- the gate
\* SpecGate drives _withRecursivePromise (chain) and _getFilePromise (await)
\* directly, on any key and with operations that settle whenever they like.
MgrIdle == UNCHANGED <<operation, chk, documents, ev, regVars, hover>>

\* chain(K, operation): the call runs up to `await createPromise()`.  st is the
\* state of the operation promise when it is handed over.
GateChain(K, st) ==
    /\ nextId <= MaxGateCalls
    /\ op' = [op EXCEPT ![nextId] = st]
    /\ calls' = [calls EXCEPT ![nextId] =
                   [NoCall EXCEPT !.kind = "chain", !.key = K, !.pc = "createPromise"]]
    /\ microQ' = Append(microQ, Micro("chainBody", nextId))
    /\ issued' = [issued EXCEPT ![K] = nextId]
    /\ nextId' = nextId + 1
    /\ UNCHANGED <<filePromises, node, thenReg>>

\* await(K), issued once every chain call made so far has returned (as
\* checkProject does, line 208-209).
GateAwait(K) ==
    /\ nextId <= MaxGateCalls
    /\ \A j \in Ids : calls[j].kind = "chain" => calls[j].pc = "returned"
    /\ calls' = GetFilePromiseStart(
                   [calls EXCEPT ![nextId] =
                      [NoCall EXCEPT !.kind = "await", !.key = K, !.tail = issued[K]]],
                   nextId, K)
    /\ microQ' = microQ \o (IF filePromises[K] = 0 THEN <<>>
                            ELSE AwaitOn(node, filePromises[K], nextId))
    /\ nextId' = nextId + 1
    /\ UNCHANGED <<filePromises, node, op, thenReg, issued>>

\* A chained operation settles.
GateSettle(i, st) ==
    /\ calls[i].kind = "chain"
    /\ op[i] = "pending"
    /\ op' = [op EXCEPT ![i] = st]
    /\ microQ' = microQ \o (IF st = "fulfilled" THEN Fulfilled(i) ELSE <<>>)
    /\ UNCHANGED <<filePromises, node, thenReg, calls, nextId, issued>>

GateNext ==
    \/ \E K \in Keys, st \in {"pending", "fulfilled", "rejected"} :
          GateChain(K, st) /\ MgrIdle
    \/ \E K \in Keys : GateAwait(K) /\ MgrIdle
    \/ \E i \in Ids, st \in {"fulfilled", "rejected"} : GateSettle(i, st) /\ MgrIdle
    \/ RunChainBody /\ Hidden
    \/ RunOpThen /\ Hidden
    \/ RunAwaitNext /\ Hidden

SpecGate == Init /\ [][GateNext]_vars

Settled(i) == op[i] \in {"fulfilled", "rejected"}

\* C1: an await(K) issued after chain(K, op1) .. chain(K, opN), with no
\* further chain on K since, has not resolved unless opN has settled.
C1_AwaitWaitsForLastChained ==
    \A w \in Ids :
        (/\ calls[w].kind = "await"
         /\ calls[w].pc = "resolved"
         /\ calls[w].tail # 0
         /\ issued[calls[w].key] = calls[w].tail)
        => Settled(calls[w].tail)

\* Such an await resolved after N >= 2 chained operations of which an earlier
\* one is still pending.
C1_Witness ==
    \E w \in Ids, j \in Ids :
        /\ calls[w].kind = "await" /\ calls[w].pc = "resolved"
        /\ calls[w].tail # 0 /\ issued[calls[w].key] = calls[w].tail
        /\ j < calls[w].tail
        /\ calls[j].kind = "chain" /\ calls[j].key = calls[w].key
        /\ op[j] = "pending"

\* ------------------------------------------------------- claims under Spec
\* C2: a checkProject() caller resolves only once the check that is the
\* latest chained on the project key when it resolves has settled; a
\* superseded caller does not resolve on its own check's settlement.
C2_CallerResolvesOnLatestCheck ==
    \A i \in Ids :
        (calls[i].kind = "checkProject" /\ calls[i].pc = "resolved")
        => (calls[i].at # 0 /\ op[calls[i].at] = "fulfilled")

\* A superseded caller has resolved, on a later check than its own.
C2_Witness ==
    \E i \in Ids :
        /\ calls[i].kind = "checkProject" /\ calls[i].pc = "resolved"
        /\ calls[i].at # i
        /\ chk[i].disposed

\* C3: the check that was active when a checkProject() started another one
\* is disposed from the moment the new check exists, hence before the new
\* check's runner begins work.
C3_SupersededIsDisposedFirst ==
    \A i \in Ids :
        (chk[i].pc # "none" /\ chk[i].prev # 0) => chk[chk[i].prev].disposed

\* A second check's runner works while the first, disposed mid-run, has
\* settled as killed.
C3_Witness ==
    \E i \in Ids :
        /\ chk[i].runner = "running"
        /\ chk[i].prev # 0
        /\ chk[chk[i].prev].disposed
        /\ chk[chk[i].prev].runner = "killed"

\* C4: at most one runner is executing a check (started, not settled, not
\* disposed).
Executing == {i \in Ids : chk[i].runner = "running" /\ ~chk[i].disposed}

C4_AtMostOneRunnerExecuting == Cardinality(Executing) <= 1

\* One runner executes while a disposed one has not settled yet.
C4_Witness ==
    \E i, j \in Ids :
        /\ i \in Executing
        /\ chk[j].runner = "running" /\ chk[j].disposed

\* C17: check.check is never started on a check that is already disposed.
C17_NeverStartedWhenDisposed ==
    [][\A i \in Ids :
          (chk[i].runner = "idle" /\ chk'[i].runner = "running")
          => ~chk[i].disposed]_vars

\* ------------------------------------------------ HoverProviderCheckHooks
MgrRest == UNCHANGED <<mgrVars, hover>>

\* _getAutoloadFile, lines 152-189: a fresh temporary directory; line 186
\* records its reported.json and the source path under the uri.
Reserve(u, filePath) ==
    /\ nextTmp <= MaxTmp
    /\ operationMap' = [operationMap EXCEPT ![u] =
                          [reportPath |-> nextTmp, sourceFilePath |-> filePath]]
    /\ lastResv' = [lastResv EXCEPT ![u] = nextTmp]
    /\ nextTmp' = nextTmp + 1
    /\ UNCHANGED <<reports, consumed>>

\* _getFileReport, line 134: this._operationMap.delete(uri).
DeleteSkipped(map, u) == map
Delete(map, u) == [map EXCEPT ![u] = NoMatch]

\* _getFileReport, lines 135-143: read and parse the file, pick the entry of
\* the source path; any exception gives null.
ParseAndPick(f, src) ==
    CASE f.kind = "missing" -> Null
      [] f.kind = "corrupt" -> Null
      [] f.kind = "null"    -> Null
      [] f.kind = "object"  -> IF f.entries[src] = 0 THEN Undef
                               ELSE Report(f.entries[src])

\* onCheckDone(uri), line 227, calls _getFileReport(uri), lines 130-136: with
\* no reservation it returns null and line 227 stores it; otherwise the
\* reservation is taken and removed and the file read is started.
RECURSIVE SumLen(_, _)
SumLen(f, S) ==
    IF S = {} THEN 0
    ELSE LET x == CHOOSE y \in S : TRUE IN Len(f[x]) + SumLen(f, S \ {x})

\* c is the check whose completion makes the call (0: not told apart); the
\* code is not given it, the log keeps it.
OnCheckDoneBy(u, c) ==
    /\ SumLen(consumed, URIs) < MaxConsumes
    /\ IF operationMap[u].reportPath = 0
       THEN /\ consumed' = [consumed EXCEPT ![u] = Append(@,
                               [res |-> Null, had |-> FALSE, match |-> NoMatch,
                                readKind |-> "none", readEntry |-> 0,
                                resv |-> lastResv[u], by |-> c])]
            /\ reports' = [reports EXCEPT ![u] = Null]
            /\ UNCHANGED operationMap
       ELSE /\ consumed' = [consumed EXCEPT ![u] = Append(@,
                               [res |-> Pending, had |-> TRUE,
                                match |-> operationMap[u],
                                readKind |-> "none", readEntry |-> 0,
                                resv |-> lastResv[u], by |-> c])]
            /\ operationMap' = Delete(operationMap, u)
            /\ UNCHANGED reports
    /\ UNCHANGED <<nextTmp, lastResv>>

OnCheckDone(u) == OnCheckDoneBy(u, 0)

\* The read of lines 136-138 ends, finding the reserved reported.json as f
\* (whatever the analysis process and the directory's cleanup made of it);
\* lines 139-143 give the result and line 227 stores it in _reports.
ReadDone(u, k, f) ==
    /\ k \in 1 .. Len(consumed[u])
    /\ consumed[u][k].res = Pending
    /\ LET r == ParseAndPick(f, consumed[u][k].match.sourceFilePath)
       IN  /\ consumed' = [consumed EXCEPT
                            ![u][k].res = r,
                            ![u][k].readKind = f.kind,
                            ![u][k].readEntry =
                                f.entries[consumed[u][k].match.sourceFilePath]]
           /\ reports' = [reports EXCEPT ![u] = r]
    /\ UNCHANGED <<operationMap, nextTmp, lastResv>>

RegistryNext ==
    \/ \E u \in URIs, q \in Paths : Reserve(u, q) /\ MgrRest
    \/ \E u \in URIs : OnCheckDone(u) /\ MgrRest
    \/ \E u \in URIs, k \in 1 .. MaxConsumes, f \in FileStates :
          ReadDone(u, k, f) /\ MgrRest

SpecRegistry == Init /\ [][RegistryNext]_vars

\* C9: of two _getFileReport(K) calls in a row with no reservation for K in
\* between, the second returns null; a call that finds a reservation returns
\* the record the file holds for the reserved source path when the file is a
\* ReporterFile (undefined when it holds none), and null when the file is
\* missing or malformed.
C9_ConsumeOnce ==
    \A u \in URIs : \A k \in 1 .. Len(consumed[u]) :
        LET e == consumed[u][k] IN
        /\ (k > 1 /\ consumed[u][k - 1].resv = e.resv) => e.res = Null
        /\ (e.had /\ e.res # Pending) =>
             e.res = IF e.readKind # "object" THEN Null
                     ELSE IF e.readEntry = 0 THEN Undef
                     ELSE Report(e.readEntry)

\* A reservation was consumed by a first call that returned the report of a
\* well-formed file, and a second call in a row returned null.
C9_Witness ==
    \E u \in URIs : \E k \in 2 .. Len(consumed[u]) :
        /\ consumed[u][k - 1].had
        /\ consumed[u][k - 1].res.kind = "report"
        /\ consumed[u][k - 1].resv = consumed[u][k].resv
        /\ consumed[u][k].res = Null

\* ------------------------------------------------------ overlapping checks
\* SpecOverlap: checks of one uri that overlap.  Check c is the one the
\* c-th reservation is made for; its process writes a reported.json into
\* its own temporary directory, holding the report c or no entry for the
\* file, or it leaves none, or a broken one.
WrittenBy(u, c) ==
    {Missing, Corrupt,
     [kind |-> "object", entries |-> [q \in Paths |-> 0]],
     [kind |-> "object",
      entries |-> [q \in Paths |-> IF q = FsPath(u) THEN c ELSE 0]]}

\* Every reservation of a run is made for the same uri.
OverlapReserve(u) ==
    /\ \A v \in URIs \ {u} : lastResv[v] = 0
    /\ Reserve(u, FsPath(u))

OverlapDone(u, c) ==
    /\ lastResv[u] # 0
    /\ c < nextTmp
    /\ \A k \in 1 .. Len(consumed[u]) : consumed[u][k].by # c
    /\ OnCheckDoneBy(u, c)

OverlapRead(u, k) ==
    /\ k \in 1 .. Len(consumed[u])
    /\ \E f \in WrittenBy(u, consumed[u][k].match.reportPath) : ReadDone(u, k, f)

OverlapNext ==
    \/ \E u \in URIs : OverlapReserve(u) /\ MgrRest
    \/ \E u \in URIs, c \in 1 .. MaxTmp : OverlapDone(u, c) /\ MgrRest
    \/ \E u \in URIs, k \in 1 .. MaxConsumes : OverlapRead(u, k) /\ MgrRest

SpecOverlap == Init /\ [][OverlapNext]_vars

\* C20: an onCheckDone that finds a reservation finds the one made for its
\* own check; and once the first two checks of the uri have both completed,
\* with both reports written and read, the stored report is the second's.
C20_OwnReservationConsumed ==
    \A u \in URIs :
        LET log == consumed[u] IN
        /\ \A k \in 1 .. Len(log) : log[k].had => log[k].match.reportPath = log[k].by
        /\ (/\ Len(log) = 2 /\ {log[1].by, log[2].by} = {1, 2}
            /\ log[1].res.kind = "report" /\ log[2].res.kind = "report")
           => reports[u] = Report(2)

\* ------------------------------------------------------ createHoverProvider
\* The build constant of shared/constants that switches cancellation off.
NO_CANCEL_OPERATIONS == FALSE

HoverLines == {1, 2}
HoverChars == 3 .. 8

\* Lines 99-103: the test a VariableData must pass for the position.
HoverMatch(type, position) ==
    /\ type.pos.start.line = position.line
    /\ type.pos.start.char < position.character
    /\ type.pos.end.char > position.character

\* Lines 96-112: the first VariableData of data that passes the test.
RECURSIVE Scan(_, _)
Scan(data, position) ==
    IF data = <<>> THEN NullAnswer
    ELSE IF HoverMatch(Head(data), position) THEN HoverAnswer(Head(data))
    ELSE Scan(Tail(data), position)

\* Lines 96-98: reporterFile[fsPath]?.data ?? [].
DataFor(f, u) ==
    IF f.entries[FsPath(u)] = 0 THEN <<>> ELSE FileReportOf(f.entries[FsPath(u)]).data

LspPosition(p) == [line |-> p.line, character |-> p.char]

\* Lines 47-59: a hover request arrives.  Without a workspace folder, or
\* already cancelled, it answers null; otherwise it asks for the file's check
\* and starts polling.
HoverEntry(u, p, workspaceFolder, cancelled) ==
    IF ~workspaceFolder \/ (~NO_CANCEL_OPERATIONS /\ cancelled)
    THEN [NoHover EXCEPT !.pc = "returned", !.uri = u, !.position = p,
                         !.cancelled = cancelled, !.answer = NullAnswer]
    ELSE [NoHover EXCEPT !.pc = "polling", !.uri = u, !.position = p]

HoverRequest(u, p, workspaceFolder, cancelled) ==
    /\ hover.pc \in {"idle", "returned"}
    /\ hover' = HoverEntry(u, p, workspaceFolder, cancelled)

\* The client cancels the request.
HoverCancel ==
    /\ hover.pc \in {"polling", "reading"}
    /\ ~hover.cancelled
    /\ hover' = [hover EXCEPT !.cancelled = TRUE]

\* The request has asked for the file's check (line 58).
HoverAsked(h) == h.pc \in {"polling", "reading"} \/ h.outcome # "none"

\* The check asked for at line 58 settles: promise.done.  It may do so while
\* the request polls, or after the request has returned.
HoverCheckSettles ==
    /\ HoverAsked(hover)
    /\ ~hover.done
    /\ hover' = [hover EXCEPT !.done = TRUE]

\* Lines 65-76: what the polled callback returns.
PollResultNoCancel(h) == IF h.done THEN "checkDone" ELSE "null"
PollResult(h) ==
    IF ~NO_CANCEL_OPERATIONS /\ h.cancelled THEN "cancel"
    ELSE IF h.done THEN "checkDone"
    ELSE "null"

\* Lines 80-82: only "checkDone" goes on to read the file.
ReadsAfterAnyEnd(result) == result # "cancel"
ReadsAfter(result) == result = "checkDone"

\* waitPeriodical, lines 62-82: one poll.  A non-null result of the callback
\* stops the wait; the last poll of the budget gives up.
HoverPoll ==
    /\ hover.pc = "polling"
    /\ LET r == PollResult(hover)
           result == IF r # "null" THEN r
                     ELSE IF hover.polls + 1 >= HoverMaxPolls THEN "timeout"
                     ELSE "none"
           polled == [hover EXCEPT !.polls = IF r = "null" THEN @ + 1 ELSE @]
       IN  hover' =
             IF result = "none" THEN polled
             ELSE IF ReadsAfter(result)
             THEN [polled EXCEPT !.pc = "reading", !.outcome = result]
             ELSE [polled EXCEPT !.pc = "returned", !.outcome = result,
                                 !.answer = NullAnswer]

\* Lines 85-112: the read ends, finding the workspace's reported.json as f.
HoverRead(f) ==
    /\ hover.pc = "reading"
    /\ hover' = [hover EXCEPT
         !.pc = "returned",
         !.read = f,
         !.answer =
            IF f.kind \in {"missing", "corrupt"} THEN Thrown
            ELSE IF ~NO_CANCEL_OPERATIONS /\ hover.cancelled THEN NullAnswer
            ELSE IF f.kind = "null" THEN Thrown
            ELSE Scan(DataFor(f, hover.uri), LspPosition(hover.position))]

HoverRest == UNCHANGED <<mgrVars, regVars>>

HoverNext ==
    \/ \E u \in URIs, l \in HoverLines, c \in HoverChars, w \in BOOLEAN, x \in BOOLEAN :
          HoverRequest(u, Pos(l, c), w, x) /\ HoverRest
    \/ HoverCancel /\ HoverRest
    \/ HoverCheckSettles /\ HoverRest
    \/ HoverPoll /\ HoverRest
    \/ \E f \in FileStates : HoverRead(f) /\ HoverRest

SpecHover == Init /\ [][HoverNext]_vars

\* A position lies in a record's half-open interval [start, end).
Before(p, q) == p.line < q.line \/ (p.line = q.line /\ p.char < q.char)
Contains(type, p) == ~Before(p, type.pos.start) /\ Before(p, type.pos.end)

RECURSIVE FirstContaining(_, _)
FirstContaining(data, p) ==
    IF data = <<>> THEN NullAnswer
    ELSE IF Contains(Head(data), p) THEN HoverAnswer(Head(data))
    ELSE FirstContaining(Tail(data), p)

\* C10: on outcome "done", with the report file read and the request not
\* cancelled, the answer is the first record of the file's report whose
\* half-open interval [start, end) contains the position, and null when
\* there is none.
C10_FirstRecordContainingPosition ==
    (/\ hover.pc = "returned" /\ hover.outcome = "checkDone"
     /\ hover.read.kind = "object" /\ ~hover.cancelled)
    => hover.answer = FirstContaining(DataFor(hover.read, hover.uri), hover.position)

\* C11: a query whose wait budget ran out before the check completed and
\* before a cancellation was seen has answered null without reading the
\* report file, and keeps that answer when the check completes afterwards.
C11_BudgetElapsedNoAnswer ==
    /\ (hover.pc = "returned" /\ hover.polls = HoverMaxPolls)
       => hover.outcome = "timeout"
    /\ hover.outcome = "timeout"
       => /\ hover.pc = "returned"
          /\ hover.polls = HoverMaxPolls
          /\ hover.answer = NullAnswer
          /\ hover.read = NotRead

\* The check completed after the query had given up.
C11_Witness ==
    /\ hover.outcome = "timeout" /\ hover.pc = "returned"
    /\ hover.done
    /\ hover.answer = NullAnswer /\ hover.read = NotRead

\* C12: a missing or corrupt report file never surfaces as an error: a hover
\* query that read such a file after outcome "done" has answered null, and a
\* _getFileReport that read such a file has returned null.
C12_UnreadableReportIsNoAnswer ==
    /\ (hover.pc = "returned" /\ hover.read.kind \in {"missing", "corrupt"})
       => hover.answer = NullAnswer
    /\ \A u \in URIs : \A k \in 1 .. Len(consumed[u]) :
          consumed[u][k].readKind \in {"missing", "corrupt"}
          => consumed[u][k].res = Null

\* ------------------------------------------------- change detection
\* SpecChange: the requests and the document source.  Every request is
\* observed in ev, which a change of a document resets.  The checks started here stay suspended at their first
\* await: their progress touches neither _operation nor the documents.
Unobserved == ev' = NoEv /\ UNCHANGED <<regVars, hover>>

ChangeNext ==
    \/ CheckProject /\ Observe("checkProject", "", "") /\ UNCHANGED <<regVars, hover>>
    \/ \E u \in URIs, c \in FileContents :
          CheckProjectIfFileChanged(u, c) /\ Observe("ifChanged", u, c)
          /\ UNCHANGED <<regVars, hover>>
    \/ Dispose /\ Observe("dispose", "", "") /\ UNCHANGED <<regVars, hover>>
    \/ Clear /\ Observe("clear", "", "") /\ UNCHANGED hover
    \/ \E u \in URIs, c \in DocContents \cup {NoDoc} : DocSet(u, c) /\ Unobserved
    \/ RunChainBody /\ Hidden
    \/ RunAwaitStart /\ Hidden
    \/ RunAwaitNext /\ Hidden

SpecChange == Init /\ [][ChangeNext]_vars

IfChanged == ev.op = "ifChanged"

\* C5 as claimed: checkProjectIfFileChanged(uri, undefined) starts no check,
\* whatever the prior state.
C5_UndefinedNeverStarts ==
    (IfChanged /\ ev.content = Undefined) => ev.started = 0

\* C5, amended: with a CheckOperation active, checkProjectIfFileChanged(uri,
\* undefined) starts no check; with none active it starts a project check.
C5_UndefinedStartsOnlyWithoutOperation ==
    (IfChanged /\ ev.content = Undefined) => (ev.started # 0 <=> ev.hadOp = 0)

\* An undefined content met an active operation holding a hash for the uri.
C5_Witness ==
    /\ IfChanged /\ ev.content = Undefined
    /\ ev.hadOp # 0 /\ ev.stored # NoHash
    /\ ev.started = 0

\* C6 as claimed: with a CheckOperation active and a content given, no check
\* is started when hash(content) equals the stored hash, and a project check
\* is started in every other case.
C6_RecheckUnlessHashEqual ==
    (IfChanged /\ ev.hadOp # 0 /\ ev.content # Undefined)
    => (ev.started = 0 <=> basicHash(ev.content) = ev.stored)

\* C6, amended: with a CheckOperation active, a project check is started
\* exactly when the content is non-empty, a hash is stored for the uri and
\* it differs from hash(content).
C6_RecheckIffStoredHashDiffers ==
    (IfChanged /\ ev.hadOp # 0)
    => (ev.started # 0 <=> (/\ ev.content \notin {Undefined, ""}
                            /\ ev.stored # NoHash
                            /\ ev.stored # basicHash(ev.content)))

\* A changed content met a differing stored hash and a check was started,
\* superseding the active one.
C6_Witness ==
    /\ IfChanged /\ ev.hadOp # 0
    /\ ev.content \in DocContents
    /\ ev.stored \notin {NoHash, basicHash(ev.content)}
    /\ ev.started # 0
    /\ chk[ev.hadOp].disposed

\* C7: with a CheckOperation active that holds no hash for the uri, no check
\* is started, whatever the content.
C7_NoStoredHashNoRecheck ==
    (IfChanged /\ ev.hadOp # 0 /\ ev.stored = NoHash) => ev.started = 0

\* A document opened after the check started is reported with its content.
C7_Witness ==
    /\ IfChanged /\ ev.hadOp # 0 /\ ev.stored = NoHash
    /\ documents[ev.uri] \in DocContents
    /\ ev.content = documents[ev.uri]
    /\ ev.started = 0

\* C19: when checkProjectIfFileChanged(uri, c) with a non-empty c has started
\* a check, the same call made again, with no document change in between,
\* starts no check, whatever documents.getAll() holds for uri.
C19_SameContentStartsNoSecondCheck ==
    (/\ IfChanged /\ ev.prev.op = "ifChanged"
     /\ ev.prev.uri = ev.uri /\ ev.prev.content = ev.content
     /\ Truthy(ev.content)
     /\ ev.prev.started # 0)
    => ev.started = 0

\* ------------------------------------------------- requests under progress
\* SpecDispose: the requests that replace or drop the active operation,
\* observed in ev, interleaved with the progress of the checks they started.
Progress ==
    \/ \E i \in Ids : StatusStarted(i)
    \/ \E i \in Ids : ConfigLoaded(i)
    \/ \E i \in Ids, r \in {"success", "error", "killed"} : RunnerSettles(i, r)
    \/ \E i \in Ids : TimerFires(i)
    \/ \E i \in Ids : TimeoutFinished(i)
    \/ \E i \in Ids : FinishDone(i)
    \/ RunChainBody
    \/ RunOpThen
    \/ RunAwaitStart
    \/ RunAwaitNext

DisposeNext ==
    \/ /\ CheckProject /\ nextId <= MaxTimedChecks
       /\ Observe("checkProject", "", "") /\ UNCHANGED <<regVars, hover>>
    \/ Dispose /\ Observe("dispose", "", "") /\ UNCHANGED <<regVars, hover>>
    \/ Clear /\ Observe("clear", "", "") /\ UNCHANGED hover
    \/ Progress /\ Unobserved

SpecDispose == Init /\ [][DisposeNext]_vars

\* C14: dispose() disposes the active check, if any, and empties the slot;
\* it leaves the key -> tail map and every node as they are; a dispose()
\* right after a dispose() changes nothing.
C14_DisposeFrame ==
    [][ev'.op = "dispose" =>
          /\ operation' = NoOperation
          /\ operation.check # 0 => chk'[operation.check].disposed
          /\ \A i \in Ids : i # operation.check => chk'[i] = chk[i]
          /\ UNCHANGED <<filePromises, node>>
          /\ ev.op = "dispose" =>
                UNCHANGED <<operation, filePromises, node, op, thenReg, calls,
                            microQ, chk, documents, nextId, issued>>]_vars

\* dispose() met a check whose runner was running, with a caller waiting on
\* the chain: the runner is disposed, the caller still waits on its node.
C14_Witness ==
    /\ ev.op = "dispose" /\ ev.hadOp # 0
    /\ operation = NoOperation
    /\ chk[ev.hadOp].disposed /\ chk[ev.hadOp].runner = "running"
    /\ filePromises[PROJECT_CHECK_STR] = ev.hadOp
    /\ node[ev.hadOp].st = "pending"
    /\ calls[ev.hadOp].pc = "awaiting"

\* ------------------------------------------------- hover over the manager
\* SpecHoverCheck: hover queries served by the manager.  The query asks the
\* manager to ensure the file is checked (line 58): a check is started unless
\* the active operation already covers the document's content; the query's
\* promise is done when that request's promise has resolved.
EnsureContent(u) == IF documents[u] = NoDoc THEN Undefined ELSE documents[u]

HoverAsk(u, p, workspaceFolder, cancelled) ==
    /\ Quiet
    /\ hover.pc \in {"idle", "returned"}
    /\ LET h == HoverEntry(u, p, workspaceFolder, cancelled) IN
       IF h.pc = "polling"
       THEN /\ ShouldRecheck(operation, u, EnsureContent(u)) => nextId <= MaxTimedChecks
            /\ CheckProjectIfFileChanged(u, EnsureContent(u))
            /\ hover' = IF nextId' # nextId THEN [h EXCEPT !.call = nextId]
                        ELSE [h EXCEPT !.done = TRUE]
       ELSE /\ hover' = h
            /\ UNCHANGED <<operation, filePromises, node, op, thenReg, calls,
                           microQ, chk, documents, nextId, issued>>

\* toCheckablePromise: the request's promise has resolved; done is set.
HoverCallResolved ==
    hover.call # 0 /\ calls[hover.call].pc = "resolved"

HoverCheckDone ==
    /\ HoverCallResolved
    /\ HoverCheckSettles

\* A poll is a timer callback: it runs after the callbacks of a resolution.
HoverPollTimer == Quiet /\ (HoverCallResolved => hover.done) /\ HoverPoll

HoverCheckRead == \E f \in {Missing, CHOOSE r \in ReporterFiles : r.entries[FsPath("a.php")] = 1} :
                     HoverRead(f)

MgrSame == UNCHANGED <<operation, filePromises, node, op, thenReg, calls,
                       microQ, chk, documents, nextId, issued>>
HoverSide == UNCHANGED <<ev, regVars>>

HoverCheckProgress(i) ==
    (\/ StatusStarted(i) \/ ConfigLoaded(i) \/ TimerFires(i)
     \/ TimeoutFinished(i) \/ FinishDone(i)) /\ Hidden
HoverCheckSettle(i, r) == RunnerSettles(i, r) /\ Hidden

HoverCheckNext ==
    \/ \E u \in URIs, w \in BOOLEAN, x \in BOOLEAN :
          HoverAsk(u, Pos(2, 5), w, x) /\ HoverSide
    \/ HoverCancel /\ MgrSame /\ HoverSide
    \/ HoverCheckDone /\ MgrSame /\ HoverSide
    \/ HoverPollTimer /\ MgrSame /\ HoverSide
    \/ HoverCheckRead /\ MgrSame /\ HoverSide
    \/ TimedDispose
    \/ \E i \in Ids : HoverCheckProgress(i)
    \/ \E i \in Ids, r \in {"success", "error", "killed"} : HoverCheckSettle(i, r)
    \/ TimedMicrotask

SpecHoverCheck ==
    /\ Init
    /\ [][HoverCheckNext]_vars
    /\ \A i \in Ids : WF_vars(HoverCheckProgress(i))
    /\ WF_vars(TimedMicrotask)

\* C16: a cancellation seen at entry or at a poll ends the query with null,
\* the report file unread; neither the cancellation nor the query's return
\* changes the active operation or disposes a check; the check the query
\* asked for still reaches its end.
C16_CancelOnlyEndsQuery ==
    /\ [][/\ (hover.pc = "polling" /\ hover.cancelled
              /\ (hover'.pc # hover.pc \/ hover'.polls # hover.polls))
             => (hover'.outcome = "cancel" /\ hover'.pc = "returned"
                 /\ hover'.answer = NullAnswer /\ hover'.read = NotRead)
          /\ ((hover'.cancelled /\ ~hover.cancelled)
              \/ (hover'.outcome = "cancel" /\ hover.outcome # "cancel"))
             => UNCHANGED <<operation, chk, filePromises, node, op>>]_vars
    /\ []((hover.pc = "returned" /\ hover.outcome = "none" /\ hover.cancelled)
           => (hover.answer = NullAnswer /\ hover.call = 0))
    /\ \A i \in Ids :
          (hover.outcome = "cancel" /\ hover.call = i) ~> (chk[i].pc = "done")

\* A query was cancelled while it polled and has returned null; the check it
\* asked for is still the active operation and its runner still runs.
C16_Witness ==
    /\ hover.outcome = "cancel" /\ hover.pc = "returned"
    /\ hover.answer = NullAnswer
    /\ hover.call # 0
    /\ operation.check = hover.call
    /\ chk[hover.call].runner = "running" /\ ~chk[hover.call].disposed

=============================================================================
